---- MODULE Spec2Model ----
(***************************************************************************)
(* Model of the vps-manager provisioning scripts:                          *)
(*   scripts/create-service.py  (create_service, check_requirements,       *)
(*                               clone_vps_manager_repo,                   *)
(*                               test_ssh_connection, create_vps_user,     *)
(*                               ssh_command, suggest_free_port,           *)
(*                               setup_local_files, setup_github_repo,     *)
(*                               write_dns_records_json, wait_for_pr_merge)*)
(*   scripts/manage-accounts.py (main, ServiceAccountManager.create_user,  *)
(*                               create_directories,                       *)
(*                               create_service_account,                   *)
(*                               remove_service_account)                   *)
(* The remote host (accounts, directories, listening sockets) is part of   *)
(* the state; every remote command is one step of the sequential program.  *)
(***************************************************************************)
EXTENDS Integers, Sequences, FiniteSets, TLC

\* ------------------------------------------------------------------ bounds
\* Width of the port windows that inputs are drawn from.
PortWindow == 2
\* How many times the operator invokes create_service on the same host.
MaxRuns == 2
\* How many times the operator may be re-asked for a desired port.
MaxAsk == 2
\* Longest domain name, in characters.
MaxDomainLen == 5
\* How many rounds of the pull-request polling loop are followed.
MaxPolls == 3
\* How many of the "gh secret/variable set" calls of one run may fail.
MaxCiFailures == 1

\* ------------------------------------------------------- program constants
\* while port < 65535
MAX_PORT == 65535
\* preferred_port = 3000
PREFERRED_PORT == 3000
\* desired < 1024 is rejected
MIN_DESIRED == 1024
\* chmod 755 / chmod(0o755), written as the octal digits
MODE_755 == 755

service_name == "web"
service_user == "svc-web"
ROOT == "root"

\* directories = [/apps/<name>, /persistent/<name>/data, /logs/<name>]
directories == << "/apps/web", "/persistent/web/data", "/logs/web" >>

\* manage-accounts: base_dirs in insertion order, the persistent one followed
\* by its data/config/backups subdirectories
account_dirs == << "/apps/web", "/persistent/web", "/persistent/web/data",
                   "/persistent/web/config", "/persistent/web/backups",
                   "/logs/web" >>

Paths == { account_dirs[i] : i \in 1..Len(account_dirs) }

ServiceDirs == { directories[i] : i \in 1..Len(directories) }

\* mkdir -p also creates the missing parents
Parents(d) == IF d \in {"/persistent/web/data", "/persistent/web/config",
                        "/persistent/web/backups"}
              THEN {"/persistent/web"} ELSE {}

NoDir == [exists |-> FALSE, owner |-> ROOT, mode |-> 0]
\* a directory somebody created earlier for root only
RootDir == [exists |-> TRUE, owner |-> ROOT, mode |-> 700]
NewDir == [exists |-> TRUE, owner |-> ROOT, mode |-> MODE_755]
SvcDir == [exists |-> TRUE, owner |-> service_user, mode |-> MODE_755]

VARIABLES
    entry,          \* which entry point this behaviour exercises
    pc,             \* position of the sequential program
    idx,            \* loop index of the current for-loop
    run,            \* number of the current invocation
    exit_code,      \* -1 while running, else the process exit status
    log,            \* remote commands issued in this invocation, in order
    faulted,        \* some command of this invocation failed for a reason
                    \* outside the command's own semantics (lost connection)
    prev_ok,        \* the previous invocation returned from create_vps_user
    returned,       \* create_vps_user returned (username, password)
    warned,         \* "User might already exist, continuing..." was printed
    user_exists,    \* host: account svc-<name> exists
    docker_group,   \* host: group docker exists
    in_docker,      \* host: svc-<name> is a member of docker
    has_password,   \* host: chpasswd has set the generated password
    dirs,           \* host: path -> [exists, owner, mode]
    listening,      \* host: ports with a listening TCP socket
    host_tool,      \* host: "ss", "lsof" or "none"
    preferred_port, \* suggest_free_port: argument
    port,           \* suggest_free_port: loop variable
    free_port,      \* suggest_free_port: returned value (0 before it returns)
    last_probe,     \* suggest_free_port: outcome of the latest probe
    chosen_port,    \* create_service: chosen_port (0 while unset)
    confirmed_port, \* the port the operator confirmed or typed (0: none)
    asks,           \* how often the operator was asked for a desired port
    env_file,       \* local .env: [exists, app_port], app_port 0 for no line
    example_file,   \* local env.example, likewise
    ci_port,        \* CI variable APP_PORT (0 while unset)
    persisted,      \* what this invocation persisted: subset of {"env","ci"}
    domain,         \* --domain as a string of characters (empty: none)
    vps_ip,         \* write_dns_records_json: argument vps_ip
    svc_name,       \* service_name as the text that records and files get
    records,        \* write_dns_records_json: the list "records"
    records_json,   \* local infra/dns-records.json: [exists, records]
    dns_calls,      \* how often write_dns_records_json has been called
    provider,       \* setup_local_files: argument provider (empty: None)
    tmpl_tops,      \* names of the top-level entries of the template
    local,          \* local_path: file -> [exists, readable, text]
    before,         \* local_path as it was when the run started
    copied,         \* top-level entries the copy loop has copied
    raised,         \* what raised out of setup_local_files ("none": nothing)
    url_ok,         \* wait_for_pr_merge: pr_url ends in /pull/<number>
    pr_state,       \* the pull request: "OPEN", "MERGED" or "CLOSED"
    branch,         \* the branch dns-setup-<domain> exists
    polls,          \* rounds of the polling loop so far
    slept,          \* seconds of the latest time.sleep (0: none yet)
    last_poll,      \* latest round: "none", "open", "unknown" or "error"
    interrupted,    \* the operator pressed Ctrl-C
    wait_result,    \* what wait_for_pr_merge returned ("none": not yet)
    ci_attempted,   \* names of the "gh secret/variable set" calls, in order
    ci_warned,      \* names whose call failed and was warned about
    has_host,       \* create_service: VPS_HOST is given
    has_repo,       \* create_service: VPS_MANAGER_REPO is given
    has_token,      \* create_service: DNS_PROVIDER_TOKEN is given
    has_path,       \* create_service: --vps-manager-path is given
    purge,          \* manage-accounts remove: --purge is given
    cloned,         \* clone_vps_manager_repo has cloned the repository
    preflight       \* check_requirements and test_ssh_connection:
                    \* "pending", "passed" or "failed"

hostvars == << user_exists, docker_group, in_docker, has_password, dirs,
               listening, host_tool >>
probevars == << preferred_port, port, free_port, last_probe >>
portvars == << chosen_port, confirmed_port, asks >>
localvars == << env_file, example_file, ci_port, persisted >>
ctlvars == << entry, pc, idx, run, exit_code, log, faulted, prev_ok, returned,
              warned >>
dnsvars == << domain, vps_ip, svc_name, records, records_json, dns_calls >>
filevars == << provider, tmpl_tops, local, before, copied, raised >>
prvars == << url_ok, pr_state, branch, polls, slept, last_poll, interrupted,
            wait_result >>
civars == << ci_attempted, ci_warned >>
runvars == << has_host, has_repo, has_token, has_path, purge, cloned,
             preflight >>
extvars == << dnsvars, filevars, prvars, civars, runvars >>
vars == << ctlvars, hostvars, probevars, portvars, localvars, extvars >>

\* --------------------------------------------------------------- the host
\* A command as it appears in the log, with how it ended: "ok", "failed"
\* (non-zero exit status or an exception) or "interrupted".
Cmd(c, d, r) == [cmd |-> c, arg |-> d, res |-> r]

\* Seeded fault: "mkdir" without -p, which refuses an existing directory.
SucceedsNoParents(c, d) ==
    CASE c = "useradd"  -> ~user_exists
      [] c = "chpasswd" -> user_exists
      [] c = "usermod"  -> user_exists /\ docker_group
      [] c = "mkdir"    -> ~dirs[d].exists
      [] c = "chown"    -> user_exists /\ dirs[d].exists
      [] c = "chmod"    -> dirs[d].exists

\* Exit status 0 of the remote command on the host as it is now:
\* useradd refuses a name in use; chpasswd and usermod need the account
\* (usermod -aG also the group); mkdir -p accepts an existing directory;
\* chown needs the account and the path; chmod needs the path.
Succeeds(c, d) ==
    CASE c = "useradd"  -> ~user_exists
      [] c = "chpasswd" -> user_exists
      [] c = "usermod"  -> user_exists /\ docker_group
      [] c = "mkdir"    -> TRUE
      [] c = "chown"    -> user_exists /\ dirs[d].exists
      [] c = "chmod"    -> dirs[d].exists

\* What a command that exits 0 leaves behind.
MkdirP(d) == [p \in Paths |->
                IF p \in ({d} \cup Parents(d)) /\ ~dirs[p].exists
                THEN NewDir ELSE dirs[p]]

Chown(d) == [dirs EXCEPT ![d].owner = service_user]

Chmod(d) == [dirs EXCEPT ![d].mode = MODE_755]

Apply(c, d) ==
    /\ user_exists' = (user_exists \/ c = "useradd")
    /\ has_password' = (has_password \/ c = "chpasswd")
    /\ in_docker' = (in_docker \/ c = "usermod")
    /\ dirs' = CASE c = "mkdir" -> MkdirP(d)
                 [] c = "chown" -> Chown(d)
                 [] c = "chmod" -> Chmod(d)
                 [] OTHER -> dirs
    /\ UNCHANGED << docker_group, listening, host_tool >>

\* --------------------------------------------------------- ssh_command
\* How one ssh invocation can go: the command runs and ssh reports its exit
\* status ("run"); the connection fails before the command runs ("lost") or
\* after it ran ("dropped"), ssh exiting non-zero both times; the operator
\* presses Ctrl-C ("interrupt").
Outcomes == {"run", "lost", "dropped", "interrupt"}

\* Seeded fault: check=True left out, so a failed command is not noticed.
ReturnsUnchecked(c, d, o) == o # "interrupt"

\* subprocess.run(..., check=True) did not raise CalledProcessError.
Returns(c, d, o) == o = "run" /\ Succeeds(c, d)

\* What ssh_command makes of it: True, False, or typer.Exit(1) on Ctrl-C.
Result(c, d, o) ==
    IF o = "interrupt" THEN "interrupted"
    ELSE IF Returns(c, d, o) THEN "ok" ELSE "failed"

Exit(code) ==
    /\ pc' = "exited"
    /\ exit_code' = code

\* The remote side of ssh_command: the command is logged as issued, and the
\* host changes when the command ran and exited 0.
ssh_command(c, d, o) ==
    /\ log' = Append(log, Cmd(c, d, Result(c, d, o)))
    /\ faulted' = (faulted \/ o # "run")
    /\ IF o \in {"run", "dropped"} /\ Succeeds(c, d)
       THEN Apply(c, d)
       ELSE UNCHANGED hostvars

\* ------------------------------------- create_service: before provisioning
\* Seeded fault: a domain is let through without a token.
ArgsRejectedTokenless ==
    \/ ~has_host
    \/ ~has_repo
    \/ (domain # << >> /\ provider = << >>)

\* The four "if ...: raise typer.Exit(1)" at the top of create_service.
ArgsRejected ==
    \/ ~has_host
    \/ ~has_repo
    \/ (domain # << >> /\ provider = << >>)
    \/ (domain # << >> /\ ~has_token)

\* if domain and not vps_manager_path
WantsClone == domain # << >> /\ ~has_path

Validate ==
    /\ entry = "create_service" /\ pc = "Validate"
    /\ IF ArgsRejected
       THEN Exit(1)
       ELSE /\ pc' = IF WantsClone THEN "Clone" ELSE "CheckRequirements"
            /\ UNCHANGED exit_code
    /\ UNCHANGED << entry, idx, run, log, faulted, prev_ok, returned, warned >>
    /\ UNCHANGED << hostvars, probevars, portvars, localvars, extvars >>

\* clone_vps_manager_repo: a failed "git clone" exits 1; without git the
\* lookup of the command raises sh.CommandNotFound, which nothing catches.
Clone ==
    /\ pc = "Clone"
    /\ \E o \in {"ok", "failed", "no_git"} :
        /\ cloned' = (o = "ok")
        /\ IF o = "ok"
           THEN pc' = "CheckRequirements" /\ UNCHANGED exit_code
           ELSE Exit(1)
    /\ UNCHANGED << entry, idx, run, log, faulted, prev_ok, returned, warned >>
    /\ UNCHANGED << has_host, has_repo, has_token, has_path, purge, preflight >>
    /\ UNCHANGED << hostvars, probevars, portvars, localvars >>
    /\ UNCHANGED << dnsvars, filevars, prvars, civars >>

\* What check_requirements can find: everything, or the first of git, gh,
\* an authenticated gh and jq that is missing. git cannot be missing after a
\* clone.
RequirementOutcomes ==
    {"ok", "no_gh", "no_auth", "no_jq"}
    \cup (IF cloned THEN {} ELSE {"no_git"})

\* Seeded fault: a missing tool is reported and the run goes on.
PreflightFailedLax(next) ==
    /\ preflight' = "failed"
    /\ pc' = next
    /\ UNCHANGED exit_code

\* raise typer.Exit(1) out of a preflight check
PreflightFailed(next) ==
    /\ preflight' = "failed"
    /\ Exit(1)

\* check_requirements: each check prints its error and raises typer.Exit(1)
CheckRequirements ==
    /\ pc = "CheckRequirements"
    /\ \E o \in RequirementOutcomes :
        IF o = "ok"
        THEN pc' = "TestSsh" /\ UNCHANGED << exit_code, preflight >>
        ELSE PreflightFailed("TestSsh")
    /\ UNCHANGED << entry, idx, run, log, faulted, prev_ok, returned, warned >>
    /\ UNCHANGED << has_host, has_repo, has_token, has_path, purge, cloned >>
    /\ UNCHANGED << hostvars, probevars, portvars, localvars >>
    /\ UNCHANGED << dnsvars, filevars, prvars, civars >>

\* test_ssh_connection: key authentication works, or the operator picks
\* "Abort" (typer.Exit(1)), the key setup or the password; the returned
\* auth_method is not used afterwards.
TestSsh ==
    /\ pc = "TestSsh"
    /\ \E o \in {"key", "abort", "password_with_key_setup", "password"} :
        IF o = "abort"
        THEN PreflightFailed("UserCreate")
        ELSE /\ preflight' = "passed"
             /\ pc' = "UserCreate"
             /\ UNCHANGED exit_code
    /\ UNCHANGED << entry, idx, run, log, faulted, prev_ok, returned, warned >>
    /\ UNCHANGED << has_host, has_repo, has_token, has_path, purge, cloned >>
    /\ UNCHANGED << hostvars, probevars, portvars, localvars >>
    /\ UNCHANGED << dnsvars, filevars, prvars, civars >>

\* --------------------------------------------------------- create_vps_user
InProvisioning == entry \in {"create_service", "create_vps_user"}

\* Steps 2 and 3: a False from ssh_command raises typer.Exit(1).
Single(here, c, next) ==
    /\ InProvisioning /\ pc = here
    /\ \E o \in Outcomes :
        /\ ssh_command(c, service_user, o)
        /\ IF Returns(c, service_user, o)
           THEN pc' = next /\ UNCHANGED exit_code
           ELSE Exit(1)
    /\ UNCHANGED << entry, idx, run, prev_ok, returned, warned >>
    /\ UNCHANGED << probevars, portvars, localvars >>
    /\ UNCHANGED extvars

\* Seeded fault: a failed useradd is fatal like every other step.
UserCreateFatal == Single("UserCreate", "useradd", "PasswordSet")

\* Step 1: a False from ssh_command is only warned about.
UserCreate ==
    /\ InProvisioning /\ pc = "UserCreate"
    /\ \E o \in Outcomes :
        /\ ssh_command("useradd", service_user, o)
        /\ IF o = "interrupt"
           THEN Exit(1) /\ UNCHANGED warned
           ELSE /\ warned' = ~Returns("useradd", service_user, o)
                /\ pc' = "PasswordSet"
                /\ UNCHANGED exit_code
    /\ UNCHANGED << entry, idx, run, prev_ok, returned >>
    /\ UNCHANGED << probevars, portvars, localvars >>
    /\ UNCHANGED extvars

PasswordSet == Single("PasswordSet", "chpasswd", "GroupAssign")

GroupAssign == Single("GroupAssign", "usermod", "DirCreate")

\* Seeded fault: the loop body forgets to raise typer.Exit(1).
LoopTolerant(here, c, next) ==
    /\ InProvisioning /\ pc = here
    /\ \E o \in Outcomes :
        /\ ssh_command(c, directories[idx], o)
        /\ o # "interrupt"
        /\ IF idx < Len(directories)
           THEN pc' = here /\ idx' = idx + 1
           ELSE pc' = next /\ idx' = 1
        /\ UNCHANGED exit_code

\* Steps 4 to 6: one for-loop over directories each; the body raises
\* typer.Exit(1) on a False, the loop's end moves to the next loop.
Loop(here, c, next) ==
    /\ InProvisioning /\ pc = here
    /\ \E o \in Outcomes :
        /\ ssh_command(c, directories[idx], o)
        /\ IF Returns(c, directories[idx], o)
           THEN /\ IF idx < Len(directories)
                   THEN pc' = here /\ idx' = idx + 1
                   ELSE pc' = next /\ idx' = 1
                /\ UNCHANGED exit_code
           ELSE Exit(1) /\ UNCHANGED idx

DirCreate ==
    /\ Loop("DirCreate", "mkdir", "OwnerSet")
    /\ UNCHANGED << entry, run, prev_ok, returned, warned >>
    /\ UNCHANGED << probevars, portvars, localvars >>
    /\ UNCHANGED extvars

\* Seeded fault: the ownership loop issues the permission command.
OwnerSetAsChmod ==
    /\ Loop("OwnerSet", "chmod", "PermSet")
    /\ UNCHANGED << entry, run, prev_ok, returned, warned >>
    /\ UNCHANGED << probevars, portvars, localvars >>
    /\ UNCHANGED extvars

OwnerSet ==
    /\ Loop("OwnerSet", "chown", "PermSet")
    /\ UNCHANGED << entry, run, prev_ok, returned, warned >>
    /\ UNCHANGED << probevars, portvars, localvars >>
    /\ UNCHANGED extvars

\* After the last chmod the function returns (service_user, password) and
\* create_service goes on to the port check.
PermSet ==
    /\ Loop("PermSet", "chmod", "Return")
    /\ returned' = (pc' = "Return")
    /\ UNCHANGED << entry, run, prev_ok, warned >>
    /\ UNCHANGED << probevars, portvars, localvars >>
    /\ UNCHANGED extvars

\* return service_user, service_password
Return ==
    /\ InProvisioning /\ pc = "Return"
    /\ IF entry = "create_service"
       THEN pc' = "Probe" /\ UNCHANGED exit_code
       ELSE Exit(0)
    /\ UNCHANGED << entry, idx, run, log, faulted, prev_ok, returned, warned >>
    /\ UNCHANGED << hostvars, probevars, portvars, localvars >>
    /\ UNCHANGED extvars

\* ------------------------------------------------------- suggest_free_port
\* Ports the inputs of one behaviour are drawn from: a window at the
\* preferred port of create_service or one ending at the highest port.
LowWindow == PREFERRED_PORT .. (PREFERRED_PORT + PortWindow)

HighWindow == (MAX_PORT - PortWindow) .. MAX_PORT

\* port = preferred_port
ProbeCall ==
    /\ pc = "Probe"
    /\ port' = preferred_port
    /\ free_port' = 0
    /\ last_probe' = "none"
    /\ pc' = "Scan"
    /\ UNCHANGED << entry, idx, run, exit_code, log, faulted, prev_ok, returned,
                    warned, preferred_port >>
    /\ UNCHANGED << hostvars, portvars, localvars >>
    /\ UNCHANGED extvars

\* while port < 65535
ScanContinues(p) == p < MAX_PORT

\* Seeded fault: the increment is forgotten.
NextPortStuck(p) == p

\* port += 1
NextPort(p) == p + 1

\* Seeded fault: the fallback is the default port, not the argument.
FallbackDefault(pref, p) == PREFERRED_PORT

\* return preferred_port, after the loop
Fallback(pref, p) == pref

\* What the remote pipeline prints: the ss or lsof lines of a listener on p;
\* nothing when neither tool is installed ("|| true").
Stdout(p) == IF host_tool # "none" /\ p \in listening THEN "listener" ELSE ""

\* How one probe can go: ssh runs the pipeline ("answer"); ssh itself fails
\* and exits non-zero with nothing on stdout ("sshfail": no check=True, so
\* nothing is raised); subprocess.run raises ("raise"). Failures are drawn
\* only for the first ports of a scan.
ProbeOutcomes(p) ==
    IF p - preferred_port <= PortWindow
    THEN {"answer", "sshfail", "raise"}
    ELSE {"answer"}

\* busy = bool(result.stdout.strip())
Busy(p, o) == IF o = "answer" THEN Stdout(p) # "" ELSE FALSE

\* Where suggest_free_port returns to.
AfterProbe == IF entry = "create_service" THEN "Confirm" ELSE "exited"

ProbeReturn(p) ==
    /\ free_port' = p
    /\ pc' = AfterProbe
    /\ exit_code' = IF entry = "create_service" THEN exit_code ELSE 0
    /\ UNCHANGED port

\* One evaluation of the loop condition and, inside the loop, one probe.
Scan ==
    /\ pc = "Scan"
    /\ IF ScanContinues(port)
       THEN \E o \in ProbeOutcomes(port) :
            /\ faulted' = (faulted \/ o # "answer")
            /\ last_probe' = IF o = "answer"
                             THEN (IF Busy(port, o) THEN "busy" ELSE "free")
                             ELSE o
            /\ IF o # "raise" /\ ~Busy(port, o)
               THEN ProbeReturn(port)
               ELSE /\ port' = NextPort(port)
                    /\ UNCHANGED << free_port, pc, exit_code >>
       ELSE /\ ProbeReturn(Fallback(preferred_port, port))
            /\ UNCHANGED << last_probe, faulted >>
    /\ UNCHANGED << entry, idx, run, log, prev_ok, returned, warned,
                    preferred_port >>
    /\ UNCHANGED << hostvars, portvars, localvars >>
    /\ UNCHANGED extvars

\* ------------------------------------------- create_service: port choice
\* Seeded fault: the suggested port is taken without asking.
ConfirmSilent ==
    /\ pc = "Confirm"
    /\ chosen_port' = free_port
    /\ pc' = "SetupLocalFiles"
    /\ UNCHANGED << entry, idx, run, exit_code, log, faulted, prev_ok, returned,
                    warned, asks, confirmed_port >>
    /\ UNCHANGED << hostvars, probevars, localvars >>
    /\ UNCHANGED extvars

\* if free_port != preferred_port: Confirm.ask(...), else the port is taken
\* as it is.
Confirm ==
    /\ pc = "Confirm"
    /\ IF free_port # preferred_port
       THEN \E use_suggested \in BOOLEAN :
            IF use_suggested
            THEN /\ chosen_port' = free_port
                 /\ confirmed_port' = free_port
                 /\ pc' = "SetupLocalFiles"
            ELSE /\ pc' = "AskPort"
                 /\ UNCHANGED << chosen_port, confirmed_port >>
       ELSE /\ chosen_port' = free_port
            /\ pc' = "SetupLocalFiles"
            /\ UNCHANGED confirmed_port
    /\ UNCHANGED << entry, idx, run, exit_code, log, faulted, prev_ok, returned,
                    warned, asks >>
    /\ UNCHANGED << hostvars, probevars, localvars >>
    /\ UNCHANGED extvars

\* What the operator may type at "Enter desired port (1024-65535)".
DesiredInputs ==
    {MIN_DESIRED - 1, PREFERRED_PORT, PREFERRED_PORT + 1, MAX_PORT,
     MAX_PORT + 1}

\* desired < 1024 or desired > 65535
OutOfRange(desired) == desired < MIN_DESIRED \/ desired > MAX_PORT

\* One round of the while True loop: a rejected, busy or unvalidated port
\* asks again, anything else is the chosen port.
AskPort ==
    /\ pc = "AskPort"
    /\ \E desired \in DesiredInputs, o \in {"answer", "sshfail", "raise"} :
        IF OutOfRange(desired) \/ o = "raise" \/ Busy(desired, o)
        THEN /\ asks < MaxAsk
             /\ asks' = asks + 1
             /\ UNCHANGED << chosen_port, confirmed_port, pc >>
        ELSE /\ chosen_port' = desired
             /\ confirmed_port' = desired
             /\ pc' = "SetupLocalFiles"
             /\ asks' = 0
    /\ UNCHANGED << entry, idx, run, exit_code, log, faulted, prev_ok, returned,
                    warned >>
    /\ UNCHANGED << hostvars, probevars, localvars >>
    /\ UNCHANGED extvars

\* ------------------------------------------------------ setup_local_files
\* Texts are sequences of pieces; a placeholder is a piece or a run of
\* pieces, so that "myapp" is the beginning of "myapp.example.com".
MYAPP == << "myapp" >>

APP_TEMPLATE == << "app-template" >>

PLACEHOLDER_DOMAIN == << "myapp", ".", "example", ".", "com" >>

PROVIDER_KEY == << "provider: " >>

ARCHIVE == "template.tar.gz"

PACKAGE_JSON == "package.json"

\* for workflow in ["dns-plan.yml", "dns-apply.yml"]
Workflows == << ".github/workflows/dns-plan.yml",
                ".github/workflows/dns-apply.yml" >>

WorkflowFiles == { Workflows[i] : i \in 1..Len(Workflows) }

\* The files of local_path and of the template that the model follows.
Files == {"README.md", PACKAGE_JSON, ARCHIVE} \cup WorkflowFiles

\* item.name of the top-level entry a file belongs to.
Top(f) == IF f \in WorkflowFiles THEN ".github" ELSE f

Tops == { Top(f) : f \in Files }

\* file_path.suffix in ['.yml', '.yaml', '.json', '.md', '.js']
Matches(f) == f # ARCHIVE

NoText == [exists |-> FALSE, readable |-> FALSE, text |-> << >>]

\* A file read_text() raises on: binary content or no permission.
Unreadable == [exists |-> TRUE, readable |-> FALSE, text |-> << >>]

TextFile(t) == [exists |-> TRUE, readable |-> TRUE, text |-> t]

\* What the template archive holds under each name.
TemplateFile(f) ==
    CASE f = "README.md" -> TextFile(<< "# " >> \o MYAPP \o << " at " >>
                                     \o PLACEHOLDER_DOMAIN)
      [] f = PACKAGE_JSON -> TextFile(<< "name: " >> \o APP_TEMPLATE)
      [] f \in WorkflowFiles -> TextFile(PROVIDER_KEY \o << "cloudflare" >>
                                         \o << " " >> \o PLACEHOLDER_DOMAIN)
      [] OTHER -> Unreadable

\* dest.exists(), dest = local_path / item.name
DestExists(loc, t) == \E f \in Files : Top(f) = t /\ loc[f].exists

\* Seeded fault: the copy loop does not look at the destination.
ShouldCopyAlways(loc, t) == t # ARCHIVE

\* The body of the copy loop: the downloaded archive is passed over, an
\* existing destination is skipped, anything else is copied.
ShouldCopy(loc, t) == t # ARCHIVE /\ ~DestExists(loc, t)

\* shutil.copytree(item, dest) / shutil.copy2(item, dest) for every item
CopyTemplate(loc, tops) ==
    [f \in Files |-> IF Top(f) \in tops /\ ShouldCopy(loc, Top(f))
                     THEN TemplateFile(f) ELSE loc[f]]

\* content.replace(old, new): every non-overlapping occurrence, from the left
RECURSIVE replace(_, _, _)
replace(s, old, new) ==
    IF Len(s) < Len(old) THEN s
    ELSE IF SubSeq(s, 1, Len(old)) = old
    THEN new \o replace(SubSeq(s, Len(old) + 1, Len(s)), old, new)
    ELSE << s[1] >> \o replace(Tail(s), old, new)

\* The three replacements of the loop over local_path.rglob("*"), in the
\* order of the code.
Customize(text) ==
    LET named == replace(replace(text, MYAPP, svc_name), APP_TEMPLATE, svc_name)
    IN  IF domain # << >> THEN replace(named, PLACEHOLDER_DOMAIN, domain)
        ELSE named

\* Download, extraction and the copy loop. A failed download or extraction
\* is an uncaught exception and ends the process. The template's env.example
\* is copied like every other entry, unless the destination has one.
SetupLocalFiles ==
    /\ pc = "SetupLocalFiles"
    /\ \E r \in {"ok", "error"}, tmpl \in BOOLEAN :
        IF r = "error"
        THEN /\ Exit(1)
             /\ raised' = "download"
             /\ UNCHANGED << example_file, local, copied >>
        ELSE /\ example_file' =
                    IF ~example_file.exists /\ tmpl
                    THEN [exists |-> TRUE, app_port |-> PREFERRED_PORT]
                    ELSE example_file
             /\ local' = CopyTemplate(local, tmpl_tops)
             /\ copied' = { t \in tmpl_tops : ShouldCopy(local, t) }
             /\ pc' = "Substitute"
             /\ UNCHANGED << exit_code, raised >>
    /\ UNCHANGED << entry, idx, run, log, faulted, prev_ok, returned, warned >>
    /\ UNCHANGED << env_file, ci_port, persisted >>
    /\ UNCHANGED << hostvars, probevars, portvars >>
    /\ UNCHANGED << dnsvars, prvars, civars, runvars, provider, tmpl_tops, before >>

\* for file_path in local_path.rglob("*"): if file_path.is_file() and
\* file_path.suffix in [...]
Rewritten(f) == local[f].exists /\ Matches(f)

\* The placeholder loop: a file that cannot be read is passed over by the
\* bare "except: pass".
Substitute ==
    /\ pc = "Substitute"
    /\ local' = [f \in Files |->
                    IF Rewritten(f) /\ local[f].readable
                    THEN [local[f] EXCEPT !.text = Customize(@)]
                    ELSE local[f]]
    /\ pc' = "PackageJson"
    /\ UNCHANGED << entry, idx, run, exit_code, log, faulted, prev_ok,
                    returned, warned >>
    /\ UNCHANGED << hostvars, probevars, portvars, localvars >>
    /\ UNCHANGED << dnsvars, prvars, civars, runvars, provider, tmpl_tops, before, copied, raised >>

\* An exception of read_text() outside any try block: the process ends.
Raise(f) ==
    /\ raised' = f
    /\ Exit(1)
    /\ UNCHANGED local

\* "Update package.json name": read, replace and written with no handler.
PackageJson ==
    /\ pc = "PackageJson"
    /\ IF local[PACKAGE_JSON].exists /\ ~local[PACKAGE_JSON].readable
       THEN Raise(PACKAGE_JSON)
       ELSE /\ local' = IF local[PACKAGE_JSON].exists
                        THEN [local EXCEPT ![PACKAGE_JSON].text =
                                               replace(@, APP_TEMPLATE, svc_name)]
                        ELSE local
            /\ pc' = "Workflows"
            /\ UNCHANGED << exit_code, raised >>
    /\ UNCHANGED << entry, idx, run, log, faulted, prev_ok, returned, warned >>
    /\ UNCHANGED << hostvars, probevars, portvars, localvars >>
    /\ UNCHANGED << dnsvars, prvars, civars, runvars, provider, tmpl_tops, before, copied >>

\* The two replacements made in a DNS workflow file.
WorkflowText(text) ==
    replace(replace(text, PLACEHOLDER_DOMAIN, domain),
            PROVIDER_KEY \o << "cloudflare" >>, PROVIDER_KEY \o provider)

\* The first workflow file that exists and cannot be read, if there is one.
Unread(i) == local[Workflows[i]].exists /\ ~local[Workflows[i]].readable

\* Where setup_local_files returns to.
AfterLocalFiles == IF entry = "create_service" THEN "EnvWrite" ELSE "exited"

\* "Update DNS workflows if domain is provided": both files in turn, with no
\* handler either; then the function returns.
UpdateWorkflows ==
    /\ pc = "Workflows"
    /\ IF domain # << >> /\ provider # << >>
       THEN IF \E i \in 1..Len(Workflows) : Unread(i)
            THEN LET i == CHOOSE i \in 1..Len(Workflows) :
                              Unread(i) /\ \A j \in 1..(i - 1) : ~Unread(j)
                 IN  /\ raised' = Workflows[i]
                     /\ Exit(1)
                     /\ local' = [f \in Files |->
                                    IF \E j \in 1..(i - 1) : Workflows[j] = f
                                    THEN IF local[f].exists
                                         THEN [local[f] EXCEPT
                                                 !.text = WorkflowText(@)]
                                         ELSE local[f]
                                    ELSE local[f]]
            ELSE /\ local' = [f \in Files |->
                                IF f \in WorkflowFiles /\ local[f].exists
                                THEN [local[f] EXCEPT !.text = WorkflowText(@)]
                                ELSE local[f]]
                 /\ pc' = AfterLocalFiles
                 /\ exit_code' = IF entry = "create_service"
                                 THEN exit_code ELSE 0
                 /\ UNCHANGED raised
       ELSE /\ pc' = AfterLocalFiles
            /\ exit_code' = IF entry = "create_service" THEN exit_code ELSE 0
            /\ UNCHANGED << local, raised >>
    /\ UNCHANGED << entry, idx, run, log, faulted, prev_ok, returned, warned >>
    /\ UNCHANGED << hostvars, probevars, portvars, localvars >>
    /\ UNCHANGED << dnsvars, prvars, civars, runvars, provider, tmpl_tops, before, copied >>

\* --------------------------------------- create_service: persisting the port
\* shutil.copy2(example_path, env_path) when there is no .env yet
EnvAfterCopy == IF ~env_file.exists /\ example_file.exists
                THEN example_file ELSE env_file

\* The first APP_PORT= line is replaced, or one is appended.
SetAppPort(f, p) == [f EXCEPT !.app_port = p]

\* "Ensure .env has the chosen APP_PORT": every exception is swallowed.
EnvWrite ==
    /\ pc = "EnvWrite"
    /\ \E io \in {"ok", "copy_fails", "write_fails"} :
        /\ env_file' = CASE io = "copy_fails" -> env_file
                         [] io = "write_fails" -> EnvAfterCopy
                         [] OTHER -> IF EnvAfterCopy.exists
                                     THEN SetAppPort(EnvAfterCopy, chosen_port)
                                     ELSE EnvAfterCopy
        /\ persisted' = IF io = "ok" /\ EnvAfterCopy.exists
                        THEN persisted \cup {"env"} ELSE persisted
    /\ pc' = "SetupGithubRepo"
    /\ UNCHANGED << entry, idx, run, exit_code, log, faulted, prev_ok, returned,
                    warned >>
    /\ UNCHANGED << example_file, ci_port >>
    /\ UNCHANGED << hostvars, probevars, portvars >>
    /\ UNCHANGED extvars

\* "APP_PORT": str(app_port or 3000)
AppPortVar(p) == IF p # 0 THEN p ELSE PREFERRED_PORT

\* setup_github_repo up to the remote: git init, the commit and the push
\* are tolerated when they fail; a failed "gh repo create" exits 1.
SetupGithubRepo ==
    /\ pc = "SetupGithubRepo"
    /\ \E r \in {"ok", "exit"} :
        IF r = "exit"
        THEN Exit(1)
        ELSE pc' = "SetCi" /\ UNCHANGED exit_code
    /\ UNCHANGED << entry, idx, run, log, faulted, prev_ok, returned, warned >>
    /\ UNCHANGED << hostvars, probevars, portvars, localvars, extvars >>

\* secrets = {...}.items(), then variables = {...}.items() with APP_DOMAIN
\* when there is a domain, then DNS_PROVIDER_TOKEN, which create_service
\* sets itself when there is a domain (and with it a token).
CiNames ==
    << "VPS_HOST", "VPS_USER", "VPS_PASSWORD", "APP_PORT", "VPS_MANAGER_REPO" >>
    \o (IF domain # << >> THEN << "APP_DOMAIN" >> ELSE << >>)
    \o (IF has_token /\ domain # << >> THEN << "DNS_PROVIDER_TOKEN" >>
        ELSE << >>)

\* What follows the last secret: the DNS records when there is a domain.
AfterCi == IF domain # << >> THEN "WriteDns" ELSE "Finish"

\* Where the loop over the names goes after one of them.
CiAdvance ==
    pc' = IF Len(ci_attempted') < Len(CiNames) THEN "SetCi" ELSE AfterCi

\* Seeded fault: a failed "gh ... set" ends the run.
CiFailedStrict(name) ==
    /\ ci_warned' = ci_warned \cup {name}
    /\ Exit(1)
    /\ UNCHANGED << ci_port, persisted >>

\* except sh.ErrorReturnCode: "Warning: Failed to set ..."
CiFailed(name) ==
    /\ ci_warned' = ci_warned \cup {name}
    /\ CiAdvance
    /\ UNCHANGED << exit_code, ci_port, persisted >>

\* One "gh secret set" or "gh variable set": it succeeds or it exits
\* non-zero; of the values only that of APP_PORT is followed.
SetCi ==
    /\ pc = "SetCi"
    /\ LET name == CiNames[Len(ci_attempted) + 1]
       IN  /\ ci_attempted' = Append(ci_attempted, name)
           /\ \E set_ok \in BOOLEAN :
               IF set_ok
               THEN /\ ci_port' = IF name = "APP_PORT"
                                  THEN AppPortVar(chosen_port) ELSE ci_port
                    /\ persisted' = IF name = "APP_PORT"
                                    THEN persisted \cup {"ci"} ELSE persisted
                    /\ CiAdvance
                    /\ UNCHANGED << exit_code, ci_warned >>
               ELSE /\ Cardinality(ci_warned) < MaxCiFailures
                    /\ CiFailed(name)
    /\ UNCHANGED << entry, idx, run, log, faulted, prev_ok, returned, warned >>
    /\ UNCHANGED << env_file, example_file >>
    /\ UNCHANGED << hostvars, probevars, portvars >>
    /\ UNCHANGED << dnsvars, filevars, prvars, runvars >>

\* "Service created successfully!": the command returns, exit status 0.
Finish ==
    /\ pc = "Finish"
    /\ Exit(0)
    /\ UNCHANGED << entry, idx, run, log, faulted, prev_ok, returned, warned >>
    /\ UNCHANGED << hostvars, probevars, portvars, localvars >>
    /\ UNCHANGED extvars

\* The provisioning sequence is run again for the same service name, on the
\* host the earlier run left behind.
Reinvoke ==
    /\ entry = "create_vps_user" /\ pc = "exited"
    /\ run < MaxRuns
    /\ run' = run + 1
    /\ prev_ok' = returned
    /\ pc' = "UserCreate"
    /\ idx' = 1
    /\ exit_code' = -1
    /\ log' = << >>
    /\ faulted' = FALSE
    /\ returned' = FALSE
    /\ warned' = FALSE
    /\ port' = 0 /\ free_port' = 0 /\ last_probe' = "none"
    /\ chosen_port' = 0 /\ confirmed_port' = 0 /\ asks' = 0
    /\ persisted' = {}
    /\ UNCHANGED << entry, preferred_port, env_file, example_file, ci_port >>
    /\ UNCHANGED hostvars
    /\ UNCHANGED extvars

\* ------------------------- manage-accounts: create_directories
\* create_directories is followed on its own and as the second step of
\* create_service_account.
InAccounts == entry \in {"create_directories", "create_service_account"}

\* The lookup pwd.getpwnam(username) is made in the loop over base_dirs, not
\* for the subdirectories, which reuse uid and gid.
IsBase(i) == account_dirs[i] \notin {"/persistent/web/data",
                "/persistent/web/config", "/persistent/web/backups"}

\* except Exception: "Failed to create directories", return False; main
\* discards the result and the process ends with status 0.
AcctReturn(ok) ==
    /\ returned' = ok
    /\ Exit(0)

AcctHost(d) ==
    /\ dirs' = d
    /\ UNCHANGED << user_exists, docker_group, in_docker, has_password,
                    listening, host_tool >>

\* service_dir.mkdir(parents=True, exist_ok=True) / sub_path.mkdir(exist_ok=True)
AcctMkdir ==
    /\ InAccounts /\ pc = "AcctMkdir"
    /\ \E o \in {"ok", "oserror"} :
        /\ log' = Append(log, Cmd("mkdir", account_dirs[idx],
                                  IF o = "ok" THEN "ok" ELSE "failed"))
        /\ faulted' = (faulted \/ o # "ok")
        /\ IF o = "ok"
           THEN /\ AcctHost(MkdirP(account_dirs[idx]))
                /\ pc' = "AcctChown"
                /\ UNCHANGED << returned, exit_code >>
           ELSE UNCHANGED hostvars /\ AcctReturn(FALSE)
    /\ UNCHANGED << entry, idx, run, prev_ok, warned >>
    /\ UNCHANGED << probevars, portvars, localvars >>
    /\ UNCHANGED extvars

\* uid/gid lookup (KeyError without the account), then os.chown
AcctChown ==
    /\ InAccounts /\ pc = "AcctChown"
    /\ IF IsBase(idx) /\ ~user_exists
       THEN /\ AcctReturn(FALSE)
            /\ UNCHANGED << log, faulted, hostvars >>
       ELSE \E o \in {"ok", "oserror"} :
                /\ log' = Append(log, Cmd("chown", account_dirs[idx],
                                          IF o = "ok" THEN "ok" ELSE "failed"))
                /\ faulted' = (faulted \/ o # "ok")
                /\ IF o = "ok"
                   THEN /\ AcctHost(Chown(account_dirs[idx]))
                        /\ pc' = "AcctChmod"
                        /\ UNCHANGED << returned, exit_code >>
                   ELSE UNCHANGED hostvars /\ AcctReturn(FALSE)
    /\ UNCHANGED << entry, idx, run, prev_ok, warned >>
    /\ UNCHANGED << probevars, portvars, localvars >>
    /\ UNCHANGED extvars

\* chmod(0o755); after the last directory the function returns True
AcctChmod ==
    /\ InAccounts /\ pc = "AcctChmod"
    /\ \E o \in {"ok", "oserror"} :
        /\ log' = Append(log, Cmd("chmod", account_dirs[idx],
                                  IF o = "ok" THEN "ok" ELSE "failed"))
        /\ faulted' = (faulted \/ o # "ok")
        /\ IF o = "ok"
           THEN /\ AcctHost(Chmod(account_dirs[idx]))
                /\ IF idx < Len(account_dirs)
                   THEN /\ idx' = idx + 1
                        /\ pc' = "AcctMkdir"
                        /\ UNCHANGED << returned, exit_code >>
                   ELSE AcctReturn(TRUE) /\ UNCHANGED idx
           ELSE UNCHANGED << hostvars, idx >> /\ AcctReturn(FALSE)
    /\ UNCHANGED << entry, run, prev_ok, warned >>
    /\ UNCHANGED << probevars, portvars, localvars >>
    /\ UNCHANGED extvars

\* --------------------------- manage-accounts: main, create and remove
\* manager.check_root(): without euid 0 the script exits 1; then the
\* subcommand is dispatched.
CheckRoot ==
    /\ pc = "CheckRoot"
    /\ \E root \in BOOLEAN :
        IF root
        THEN /\ pc' = IF entry = "create_service_account"
                      THEN "AcctCreateUser" ELSE "AcctUserdel"
             /\ UNCHANGED exit_code
        ELSE Exit(1)
    /\ UNCHANGED << entry, idx, run, log, faulted, prev_ok, returned, warned >>
    /\ UNCHANGED << hostvars, probevars, portvars, localvars, extvars >>

\* How useradd followed by usermod -aG docker can go; the second needs the
\* group docker.
CreateOutcomes ==
    {"useradd_fails", "usermod_fails"}
    \cup (IF docker_group THEN {"ok"} ELSE {})

\* create_user for an account that is not there yet: a failed command is
\* caught, create_user returns False and create_service_account with it.
AcctUseradd ==
    \E o \in CreateOutcomes :
        /\ log' = IF o = "useradd_fails"
                  THEN Append(log, Cmd("useradd", service_user, "failed"))
                  ELSE log \o << Cmd("useradd", service_user, "ok"),
                                 Cmd("usermod", service_user,
                                     IF o = "ok" THEN "ok" ELSE "failed") >>
        /\ faulted' = (faulted \/ o # "ok")
        /\ user_exists' = (o # "useradd_fails")
        /\ in_docker' = (o = "ok")
        /\ IF o = "ok"
           THEN pc' = "AcctMkdir" /\ UNCHANGED << returned, exit_code >>
           ELSE AcctReturn(FALSE)
        /\ UNCHANGED << warned, docker_group, has_password, dirs, listening,
                        host_tool >>

\* Seeded fault: an existing account is warned about and the directories
\* are set up again.
AcctExistsProceeds ==
    /\ warned' = TRUE
    /\ pc' = "AcctMkdir"
    /\ UNCHANGED << returned, exit_code >>
    /\ UNCHANGED << log, faulted, hostvars >>

\* if self.user_exists(username): print_warning(...); return False, and
\* create_service_account returns False before create_directories.
AcctExists ==
    /\ warned' = TRUE
    /\ AcctReturn(FALSE)
    /\ UNCHANGED << log, faulted, hostvars >>

\* create_service_account: create_user
AcctCreateUser ==
    /\ entry = "create_service_account" /\ pc = "AcctCreateUser"
    /\ IF user_exists THEN AcctExists ELSE AcctUseradd
    /\ UNCHANGED << entry, idx, run, prev_ok >>
    /\ UNCHANGED << probevars, portvars, localvars, extvars >>

\* self.base_dirs.values() for the service, in insertion order
base_dirs == << "/apps/web", "/persistent/web", "/logs/web" >>

\* A directory and what is below it.
Under(d) == { p \in Paths : p = d \/ d \in Parents(p) }

\* rm -rf d
Removed(d) == [p \in Paths |-> IF p \in Under(d) THEN NoDir ELSE dirs[p]]

\* rm -rf d that gave up at d itself after emptying it
Emptied(d) == [p \in Paths |-> IF p \in Under(d) \ {d} THEN NoDir ELSE dirs[p]]

\* keep_data=not args.purge
keep_data == ~purge

\* remove_service_account up to userdel: an unknown user is an error and
\* nothing is done; a failed userdel is caught and nothing more is done.
AcctUserdel ==
    /\ entry = "remove_service_account" /\ pc = "AcctUserdel"
    /\ IF ~user_exists
       THEN /\ AcctReturn(FALSE)
            /\ UNCHANGED << log, faulted, hostvars, idx >>
       ELSE \E o \in {"ok", "failed"} :
            /\ log' = Append(log, Cmd("userdel", service_user, o))
            /\ faulted' = (faulted \/ o # "ok")
            /\ user_exists' = (o # "ok")
            /\ in_docker' = (in_docker /\ o # "ok")
            /\ has_password' = (has_password /\ o # "ok")
            /\ UNCHANGED << docker_group, dirs, listening, host_tool >>
            /\ IF o = "ok" /\ ~keep_data
               THEN /\ pc' = "AcctPurge" /\ idx' = 1
                    /\ UNCHANGED << returned, exit_code >>
               ELSE AcctReturn(o = "ok") /\ UNCHANGED idx
    /\ UNCHANGED << entry, run, prev_ok, warned >>
    /\ UNCHANGED << probevars, portvars, localvars, extvars >>

\* The end of one round of "for base_path in self.base_dirs.values()".
PurgeAdvance ==
    IF idx < Len(base_dirs)
    THEN idx' = idx + 1 /\ UNCHANGED << pc, returned, exit_code >>
    ELSE AcctReturn(TRUE) /\ UNCHANGED idx

\* One round of the purge loop: an existing directory is removed with
\* rm -rf; a failed rm is caught by the handler of the whole function, which
\* returns False.
AcctPurge ==
    /\ entry = "remove_service_account" /\ pc = "AcctPurge"
    /\ IF ~dirs[base_dirs[idx]].exists
       THEN PurgeAdvance /\ UNCHANGED << log, faulted, hostvars >>
       ELSE \E o \in {"ok", "failed", "emptied"} :
            /\ log' = Append(log, Cmd("rm", base_dirs[idx],
                                      IF o = "ok" THEN "ok" ELSE "failed"))
            /\ faulted' = (faulted \/ o # "ok")
            /\ AcctHost(CASE o = "ok" -> Removed(base_dirs[idx])
                          [] o = "emptied" -> Emptied(base_dirs[idx])
                          [] OTHER -> dirs)
            /\ IF o = "ok"
               THEN PurgeAdvance
               ELSE AcctReturn(FALSE) /\ UNCHANGED idx
    /\ UNCHANGED << entry, run, prev_ok, warned >>
    /\ UNCHANGED << probevars, portvars, localvars, extvars >>

\* ------------------------------------------------- write_dns_records_json
\* Strings that the code takes apart are sequences of one-character strings.
DOT == << "." >>

WWW == << "w", "w", "w" >>

\* The position of the first "." of s, 0 when it has none.
FirstDot(s) ==
    IF \E i \in 1..Len(s) : s[i] = "."
    THEN CHOOSE i \in 1..Len(s) : s[i] = "." /\ \A j \in 1..(i - 1) : s[j] # "."
    ELSE 0

\* domain.split('.'): the labels between the dots, empty ones included.
RECURSIVE split(_)
split(s) ==
    IF FirstDot(s) = 0
    THEN << s >>
    ELSE << SubSeq(s, 1, FirstDot(s) - 1) >>
         \o split(SubSeq(s, FirstDot(s) + 1, Len(s)))

\* '.'.join(labels)
RECURSIVE join(_)
join(labels) ==
    IF Len(labels) = 0 THEN << >>
    ELSE IF Len(labels) = 1 THEN labels[1]
    ELSE labels[1] \o DOT \o join(Tail(labels))

\* s.startswith(prefix)
startswith(s, prefix) ==
    Len(prefix) <= Len(s) /\ SubSeq(s, 1, Len(prefix)) = prefix

\* {"zone": ..., "name": ..., "type": ..., "values": [...]}
Record(z, n, t, v) == [zone |-> z, name |-> n, type |-> t, values |-> << v >>]

\* Seeded fault: the zone keeps every label of the domain.
zoneWhole(parts) == join(parts)

\* zone = '.'.join(parts[-2:])
zone(parts) == join(SubSeq(parts, Len(parts) - 1, Len(parts)))

\* subdomain = '.'.join(parts[:-2])
subdomain(parts) == join(SubSeq(parts, 1, Len(parts) - 2))

\* Seeded fault: the service record is appended whatever the domain is.
WantsServiceRecordAlways(d, n) == TRUE

\* if not domain.startswith(f"{service_name}.")
WantsServiceRecord(d, n) == ~startswith(d, n \o DOT)

\* Seeded fault: the service record repeats the alias target.
ServiceRecordAlias(d, ip, n) == Record(d, n, "A", d \o DOT)

\* {"zone": domain, "name": service_name, "type": "A", "values": [vps_ip]}
ServiceRecord(d, ip, n) == Record(d, n, "A", ip)

\* The list "records" for a domain d, an address ip and a service name n.
DnsRecords(d, ip, n) ==
    IF Len(split(d)) > 2
    THEN << Record(zone(split(d)), subdomain(split(d)), "A", ip),
            Record(zone(split(d)), WWW \o DOT \o subdomain(split(d)), "CNAME",
                   d \o DOT) >>
    ELSE << Record(d, << >>, "A", ip),
            Record(d, WWW, "CNAME", d \o DOT) >>
         \o (IF WantsServiceRecord(d, n)
             THEN << ServiceRecord(d, ip, n) >> ELSE << >>)

\* The records are computed, then written to infra/dns-records.json; a failed
\* write is only warned about. create_service calls the function once, after
\* the CI configuration; on its own it may be called again.
WriteDnsRecordsJson ==
    /\ pc = "WriteDns"
    /\ records' = DnsRecords(domain, vps_ip, svc_name)
    /\ \E io \in {"ok", "oserror"} :
        records_json' = IF io = "ok"
                        THEN [exists |-> TRUE, records |-> records']
                        ELSE records_json
    /\ dns_calls' = dns_calls + 1
    /\ IF entry = "create_service"
       THEN pc' = "Finish" /\ UNCHANGED exit_code
       ELSE IF dns_calls' < MaxRuns
       THEN UNCHANGED << pc, exit_code >>
       ELSE Exit(0)
    /\ UNCHANGED << entry, idx, run, log, faulted, prev_ok, returned, warned >>
    /\ UNCHANGED << domain, vps_ip, svc_name >>
    /\ UNCHANGED << hostvars, probevars, portvars, localvars, filevars,
                    prvars, civars, runvars >>

\* ------------------------------------------------------- wait_for_pr_merge
\* return True / return False
WaitReturn(b) ==
    /\ wait_result' = b
    /\ Exit(0)

\* re.search(r'/pull/(\d+)$', pr_url): without a match the function returns
\* False at once.
ParsePrUrl ==
    /\ pc = "ParsePrUrl"
    /\ IF url_ok
       THEN pc' = "Poll" /\ UNCHANGED << wait_result, exit_code >>
       ELSE WaitReturn("false")
    /\ UNCHANGED << entry, idx, run, log, faulted, prev_ok, returned, warned >>
    /\ UNCHANGED << url_ok, pr_state, branch, polls, slept, last_poll,
                    interrupted >>
    /\ UNCHANGED << hostvars, probevars, portvars, localvars, dnsvars,
                    filevars, civars, runvars >>

\* Somebody merges or closes the pull request while the operator waits; the
\* branch is deleted with it or kept.
Review ==
    /\ pc = "Poll" /\ pr_state = "OPEN"
    /\ pr_state' \in {"MERGED", "CLOSED"}
    /\ branch' \in BOOLEAN
    /\ UNCHANGED << url_ok, polls, slept, last_poll, interrupted, wait_result >>
    /\ UNCHANGED << ctlvars, hostvars, probevars, portvars, localvars, dnsvars,
                    filevars, civars, runvars >>

\* How "gh pr view" can go: it prints the state, it prints something else,
\* it exits non-zero (sh.ErrorReturnCode), or Ctrl-C arrives.
ViewOutcomes == {"state", "garbled", "failed", "interrupt"}

\* How the branch lookup can go after a failed "gh pr view": it exits
\* non-zero when the branch is gone and when the lookup itself fails.
RefOutcomes == IF branch THEN {"found", "failed"} ELSE {"failed"}

\* time.sleep(seconds) at the end of a round
Sleep(seconds, observed) ==
    /\ slept' = seconds
    /\ last_poll' = observed
    /\ polls' = polls + 1
    /\ UNCHANGED << pc, exit_code, wait_result, interrupted >>

\* One round of "while True". Both sh.ErrorReturnCode handlers sit inside
\* the outer try, so nothing reaches the outer handler and its sleep of 10.
Poll ==
    /\ pc = "Poll" /\ polls < MaxPolls
    /\ \E o \in ViewOutcomes, ref \in RefOutcomes :
        CASE o = "interrupt" ->
                /\ interrupted' = TRUE
                /\ WaitReturn("false")
                /\ UNCHANGED << polls, slept, last_poll >>
          [] o = "state" /\ pr_state = "MERGED" ->
                /\ WaitReturn("true")
                /\ UNCHANGED << polls, slept, last_poll, interrupted >>
          [] o = "state" /\ pr_state = "CLOSED" ->
                /\ WaitReturn("false")
                /\ UNCHANGED << polls, slept, last_poll, interrupted >>
          [] o = "state" /\ pr_state = "OPEN" -> Sleep(5, "open")
          [] o = "garbled" -> Sleep(5, "unknown")
          [] o = "failed" /\ ref = "found" -> Sleep(5, "error")
          [] o = "failed" /\ ref = "failed" ->
                /\ WaitReturn("true")
                /\ last_poll' = "error"
                /\ UNCHANGED << polls, slept, interrupted >>
    /\ UNCHANGED << entry, idx, run, log, faulted, prev_ok, returned, warned >>
    /\ UNCHANGED << url_ok, pr_state, branch >>
    /\ UNCHANGED << hostvars, probevars, portvars, localvars, dnsvars,
                    filevars, civars, runvars >>

\* ------------------------------------------------------------ behaviours
NoFile == [exists |-> FALSE, app_port |-> 0]

\* The service directories as an earlier administrator may have left them:
\* each absent or present and root-only, the parent of the data directory
\* present when the data directory is.
InitDirs ==
    { [p \in Paths |->
         IF p \in S \/ (p = "/persistent/web" /\ "/persistent/web/data" \in S)
         THEN RootDir ELSE NoDir] : S \in SUBSET ServiceDirs }

\* The first k ports from the preferred one are taken.
BusyPrefixes ==
    { PREFERRED_PORT .. (PREFERRED_PORT + k - 1) : k \in 0 .. (PortWindow + 1) }

\* The arguments of a run that nothing depends on.
InitNoArgs ==
    /\ has_host = TRUE /\ has_repo = TRUE /\ has_token = FALSE
    /\ has_path = FALSE /\ purge = FALSE

\* Characters that domains and service names are made of.
Chars == {"a", "w", "."}

\* Every string of 1..n characters.
RECURSIVE Strings(_)
Strings(n) ==
    IF n = 0 THEN {}
    ELSE LET shorter == Strings(n - 1)
         IN  { << c >> : c \in Chars } \cup shorter
             \cup { s \o << c >> : s \in shorter, c \in Chars }

\* No DNS configuration asked for.
NoRecords == [exists |-> FALSE, records |-> << >>]

InitNoDns ==
    /\ domain = << >> /\ vps_ip = << >> /\ svc_name = << >>

\* Nobody waits for a pull request.
InitNoPr ==
    /\ url_ok = TRUE /\ pr_state = "OPEN" /\ branch = TRUE

\* A fresh local_path and the template with all of its entries.
InitNoFiles ==
    /\ provider = << >>
    /\ tmpl_tops = Tops \ {ARCHIVE}
    /\ local = [f \in Files |-> NoText]

\* What an operator may have in local_path: notes that mention the
\* placeholders, or a file that cannot be read as text.
UserFile ==
    TextFile(<< "notes on " >> \o PLACEHOLDER_DOMAIN \o << " and " >>
             \o APP_TEMPLATE)

\* setup_local_files on its own: any destination, a template that has a
\* README.md and any of the other entries, a service name that is or is not
\* the placeholder, with and without a domain and a provider.
InitLocalFiles ==
    /\ InitNoArgs
    /\ InitNoPr
    /\ entry = "setup_local_files" /\ pc = "SetupLocalFiles"
    /\ domain \in { << >>, << "a", ".", "w" >> }
    /\ provider \in { << >>, << "netlify" >> }
    /\ svc_name \in { << "web" >>, MYAPP }
    /\ vps_ip = << >>
    /\ tmpl_tops \in { T \in SUBSET Tops : "README.md" \in T }
    /\ local \in [Files -> {NoText, UserFile, Unreadable}]
    /\ local[ARCHIVE] # Unreadable
    /\ user_exists = FALSE /\ docker_group = TRUE
    /\ dirs = [p \in Paths |-> NoDir]
    /\ listening = {} /\ host_tool = "ss"
    /\ preferred_port = PREFERRED_PORT
    /\ env_file = NoFile /\ example_file = NoFile

InitControl ==
    /\ cloned = FALSE /\ preflight = "pending"
    /\ records = << >> /\ records_json = NoRecords /\ dns_calls = 0
    /\ copied = {} /\ raised = "none"
    /\ ci_attempted = << >> /\ ci_warned = {}
    /\ polls = 0 /\ slept = 0 /\ last_poll = "none"
    /\ interrupted = FALSE /\ wait_result = "none"
    /\ idx = 1 /\ run = 1 /\ exit_code = -1 /\ log = << >>
    /\ faulted = FALSE /\ prev_ok = FALSE /\ returned = FALSE
    /\ warned = FALSE
    /\ in_docker = FALSE /\ has_password = FALSE
    /\ port = 0 /\ free_port = 0 /\ last_probe = "none"
    /\ chosen_port = 0 /\ confirmed_port = 0 /\ asks = 0
    /\ ci_port = 0 /\ persisted = {}

\* create_service with and without --domain. Complete arguments meet every
\* host and every local directory; every other combination of arguments
\* meets a fresh host and an empty directory.
InitCreateService ==
    /\ InitNoPr
    /\ entry = "create_service" /\ pc = "Validate"
    /\ purge = FALSE
    /\ svc_name = << "web" >>
    /\ tmpl_tops = Tops \ {ARCHIVE}
    /\ local = [f \in Files |-> NoText]
    /\ preferred_port = PREFERRED_PORT
    /\ domain \in { << >>, << "a", ".", "w" >> }
    /\ vps_ip = IF domain # << >> THEN << "1" >> ELSE << >>
    /\ \/ /\ has_host = TRUE /\ has_repo = TRUE /\ has_path = FALSE
          /\ has_token = (domain # << >>)
          /\ provider = IF domain # << >> THEN << "netlify" >> ELSE << >>
          /\ user_exists \in BOOLEAN
          /\ docker_group \in BOOLEAN
          /\ dirs \in InitDirs
          /\ listening \in BusyPrefixes
          /\ host_tool \in {"ss", "none"}
          /\ env_file \in {NoFile, [exists |-> TRUE, app_port |-> 0]}
          /\ example_file \in {NoFile, [exists |-> TRUE,
                                        app_port |-> PREFERRED_PORT]}
       \/ /\ has_host \in BOOLEAN /\ has_repo \in BOOLEAN
          /\ has_token \in BOOLEAN /\ has_path \in BOOLEAN
          /\ provider \in { << >>, << "netlify" >> }
          /\ user_exists = FALSE /\ docker_group = TRUE
          /\ dirs = [p \in Paths |-> NoDir]
          /\ listening = {} /\ host_tool = "ss"
          /\ env_file = NoFile /\ example_file = NoFile

InitProvisioning ==
    /\ InitNoArgs
    /\ InitNoPr
    /\ InitNoFiles
    /\ InitNoDns
    /\ entry = "create_vps_user" /\ pc = "UserCreate"
    /\ user_exists \in BOOLEAN
    /\ docker_group \in BOOLEAN
    /\ dirs \in InitDirs
    /\ listening = {} /\ host_tool = "ss"
    /\ preferred_port = PREFERRED_PORT
    /\ env_file = NoFile /\ example_file = NoFile

InitProbe ==
    /\ InitNoArgs
    /\ InitNoPr
    /\ InitNoFiles
    /\ InitNoDns
    /\ entry = "suggest_free_port" /\ pc = "Probe"
    /\ \E w \in {LowWindow, HighWindow} :
        /\ preferred_port \in w
        /\ listening \in SUBSET w
    /\ host_tool \in {"ss", "lsof", "none"}
    /\ user_exists = FALSE /\ docker_group = TRUE
    /\ dirs = [p \in Paths |-> NoDir]
    /\ env_file = NoFile /\ example_file = NoFile

InitAccounts ==
    /\ InitNoArgs
    /\ InitNoPr
    /\ InitNoFiles
    /\ InitNoDns
    /\ entry = "create_directories" /\ pc = "AcctMkdir"
    /\ user_exists \in BOOLEAN
    /\ docker_group = TRUE
    /\ dirs \in InitDirs
    /\ listening = {} /\ host_tool = "ss"
    /\ preferred_port = PREFERRED_PORT
    /\ env_file = NoFile /\ example_file = NoFile

\* write_dns_records_json on its own: any domain, an address or a host name
\* for vps_ip, and service names that are empty, "www", a label or dotted.
InitDns ==
    /\ InitNoArgs
    /\ InitNoPr
    /\ InitNoFiles
    /\ entry = "write_dns_records_json" /\ pc = "WriteDns"
    /\ domain \in Strings(MaxDomainLen)
    /\ vps_ip \in { << "1" >>, << "h" >> }
    /\ svc_name \in { << >>, WWW, << "a" >>, << "a", ".", "w" >> }
    /\ user_exists = FALSE /\ docker_group = TRUE
    /\ dirs = [p \in Paths |-> NoDir]
    /\ listening = {} /\ host_tool = "ss"
    /\ preferred_port = PREFERRED_PORT
    /\ env_file = NoFile /\ example_file = NoFile

\* wait_for_pr_merge on its own: the pull request may already be merged or
\* closed when the wait begins.
InitWait ==
    /\ InitNoArgs
    /\ InitNoDns
    /\ InitNoFiles
    /\ entry = "wait_for_pr_merge" /\ pc = "ParsePrUrl"
    /\ url_ok \in BOOLEAN
    /\ pr_state \in {"OPEN", "MERGED", "CLOSED"}
    /\ branch \in BOOLEAN
    /\ user_exists = FALSE /\ docker_group = TRUE
    /\ dirs = [p \in Paths |-> NoDir]
    /\ listening = {} /\ host_tool = "ss"
    /\ preferred_port = PREFERRED_PORT
    /\ env_file = NoFile /\ example_file = NoFile

\* manage-accounts create (without --ssh-key) and remove, on a host with or
\* without the account
\* and with any of the service directories left by an earlier run.
InitManage ==
    /\ InitNoPr
    /\ InitNoFiles
    /\ InitNoDns
    /\ has_host = TRUE /\ has_repo = TRUE /\ has_token = FALSE
    /\ has_path = FALSE
    /\ \/ entry = "create_service_account" /\ purge = FALSE
       \/ entry = "remove_service_account" /\ purge \in BOOLEAN
    /\ pc = "CheckRoot"
    /\ user_exists \in BOOLEAN
    /\ docker_group \in BOOLEAN
    /\ dirs \in InitDirs
    /\ listening = {} /\ host_tool = "ss"
    /\ preferred_port = PREFERRED_PORT
    /\ env_file = NoFile /\ example_file = NoFile

Init ==
    InitControl /\ (InitCreateService \/ InitProvisioning \/ InitProbe
                    \/ InitAccounts \/ InitDns \/ InitLocalFiles
                    \/ InitWait \/ InitManage)
    /\ before = local

Next ==
    \/ Validate \/ Clone \/ CheckRequirements \/ TestSsh
    \/ UserCreate \/ PasswordSet \/ GroupAssign
    \/ DirCreate \/ OwnerSet \/ PermSet \/ Return
    \/ ProbeCall \/ Scan
    \/ Confirm \/ AskPort
    \/ SetupLocalFiles \/ Substitute \/ PackageJson \/ UpdateWorkflows
    \/ EnvWrite \/ SetupGithubRepo \/ SetCi \/ Finish
    \/ Reinvoke
    \/ AcctMkdir \/ AcctChown \/ AcctChmod
    \/ CheckRoot \/ AcctCreateUser \/ AcctUserdel \/ AcctPurge
    \/ WriteDnsRecordsJson
    \/ ParsePrUrl \/ Review \/ Poll

Spec == Init /\ [][Next]_vars

\* The process is sequential and blocking: a probe loop that can take a step
\* takes it.
LiveSpec == Init /\ [][Next]_vars /\ WF_vars(Scan)

\* ================================================================ claims
\* ------------------------------------------------- provisioning sequence
\* The commands of a log without their results.
Issued(l) == [i \in 1..Len(l) |-> [cmd |-> l[i].cmd, arg |-> l[i].arg]]

Step(c, d) == [cmd |-> c, arg |-> d]

ProvisioningOrder ==
    << Step("useradd", "svc-web"), Step("chpasswd", "svc-web"),
       Step("usermod", "svc-web"),
       Step("mkdir", "/apps/web"), Step("mkdir", "/persistent/web/data"),
       Step("mkdir", "/logs/web"),
       Step("chown", "/apps/web"), Step("chown", "/persistent/web/data"),
       Step("chown", "/logs/web"),
       Step("chmod", "/apps/web"), Step("chmod", "/persistent/web/data"),
       Step("chmod", "/logs/web") >>

IsPrefix(a, b) == Len(a) <= Len(b) /\ a = SubSeq(b, 1, Len(a))

\* Command c on d is in the log, and some command b on d stands before it.
Before(b, c, d) ==
    \A j \in 1..Len(log) :
        (log[j].cmd = c /\ log[j].arg = d)
            => \E i \in 1..(j - 1) : log[i].cmd = b /\ log[i].arg = d

\* C1: the provisioning sequence issues its remote commands one at a time
\* in the fixed order useradd, chpasswd, usermod, mkdir x3, chown x3,
\* chmod x3 (the log is always a prefix of that list); and in both scripts
\* each of the three service directories is created before it is chowned
\* and chowned before it is chmodded.
C1_FixedOrder ==
    /\ InProvisioning => IsPrefix(Issued(log), ProvisioningOrder)
    /\ \A d \in ServiceDirs : Before("mkdir", "chown", d)
                              /\ Before("chown", "chmod", d)

\* The whole sequence has been issued.
C1_Witness == entry = "create_service" /\ Issued(log) = ProvisioningOrder

\* A logged command that failed and is not the user creation.
FatalAt(i) == log[i].res = "failed" /\ log[i].cmd # "useradd"

\* C2: in the provisioning sequence a failed chpasswd, usermod, mkdir, chown
\* or chmod is the last remote command of the run (not retried, nothing
\* issued after it) and the process has exited non-zero without any later
\* step of create_service (port probe, port choice, persisting) having run.
C2_FailureAborts ==
    InProvisioning =>
        \A i \in 1..Len(log) :
            FatalAt(i) =>
                /\ i = Len(log)
                /\ pc = "exited" /\ exit_code = 1
                /\ ~returned
                /\ free_port = 0 /\ chosen_port = 0 /\ persisted = {}

\* A chown in the middle of create_service failed.
C2_Witness ==
    /\ entry = "create_service" /\ Len(log) = 8
    /\ FatalAt(8) /\ pc = "exited"

\* C3: a failed useradd is only warned about ("User might already exist")
\* and the sequence goes on with the password step.
C3_UserCreateTolerated ==
    (InProvisioning /\ Len(log) >= 1 /\ log[1].res = "failed") =>
        /\ log[1].cmd = "useradd"
        /\ warned
        /\ IF Len(log) = 1 THEN pc = "PasswordSet" /\ exit_code = -1
           ELSE log[2].cmd = "chpasswd"

\* useradd failed and the sequence still ran to its end.
C3_Witness ==
    /\ InProvisioning /\ returned
    /\ log[1].res = "failed" /\ warned

AllProvisioned == \A d \in ServiceDirs : dirs[d] = SvcDir

\* C4: a run of the provisioning sequence that follows a successful run,
\* on a host that behaves normally, never exits non-zero, and when it has
\* ended all three directories exist, owned by svc-<name>, mode 755.
C4_RerunIdempotent ==
    (entry = "create_vps_user" /\ run >= 2 /\ prev_ok /\ ~faulted) =>
        /\ exit_code # 1
        /\ pc = "exited" => (returned /\ AllProvisioned)

\* The second run has ended.
C4_Witness ==
    /\ entry = "create_vps_user" /\ run = 2 /\ prev_ok /\ ~faulted
    /\ pc = "exited" /\ warned

\* C5: create_vps_user returns (username, password) only when all three
\* directories exist, are owned by svc-<name> and have mode 755.
C5_SuccessMeansProvisioned == returned /\ InProvisioning => AllProvisioned

\* A successful run on a host where the directories existed for root only.
C5_Witness ==
    /\ InProvisioning /\ returned /\ run = 1
    /\ dirs["/persistent/web"] = RootDir

\* --------------------------------------------------------- free-port probe
ProbeReturned == free_port # 0

\* C6: whatever the preferred port and the busy ports, the port that
\* suggest_free_port returns lies in [preferred_port, 65535].
C6_InRange ==
    ProbeReturned => (preferred_port <= free_port /\ free_port <= MAX_PORT)

\* A scan near the top of the range that moved past the preferred port.
C6_Witness ==
    /\ entry = "suggest_free_port" /\ pc = "exited"
    /\ free_port = MAX_PORT - 1 /\ preferred_port < free_port

\* The lowest port from p up to 65535 without a listener, 0 if there is none.
RECURSIVE LowestFree(_)
LowestFree(p) ==
    IF p > MAX_PORT THEN 0
    ELSE IF p \notin listening THEN p ELSE LowestFree(p + 1)

\* C7: when some port in [preferred_port, 65535] has no listening socket,
\* suggest_free_port returns the lowest such port (stated for scans in
\* which every probe was answered and the host has ss or lsof).
C7_LowestFree ==
    (ProbeReturned /\ ~faulted /\ host_tool # "none"
        /\ LowestFree(preferred_port) # 0)
    => free_port = LowestFree(preferred_port)

Scanning == pc = "Scan"

\* No probe of the scan found the port free.
NoneFree == last_probe \in {"none", "busy", "raise"}

\* C8: the probe always terminates, and a scan in which every probe
\* reported busy or raised has stopped at port 65535 and returned the
\* preferred port.
C8_Terminates ==
    /\ [](ProbeReturned /\ NoneFree
            => free_port = preferred_port /\ port = MAX_PORT)
    /\ (Scanning ~> ~Scanning)

\* A scan that found every port busy up to the end and fell back.
C8_Witness ==
    /\ entry = "suggest_free_port" /\ pc = "exited"
    /\ last_probe = "busy" /\ preferred_port = MAX_PORT - PortWindow
    /\ free_port = preferred_port

\* C9: a probe whose remote check failed (ssh exits non-zero, or running it
\* raises) is inconclusive: the scan does not return that port but moves on
\* to the next one.
C9_FailedProbeSkipped ==
    [][ (Scanning /\ ScanContinues(port)
            /\ last_probe' \in {"sshfail", "raise"})
        => (pc' = "Scan" /\ port' = port + 1 /\ free_port' = 0) ]_vars

\* ----------------------------------------------------- persisting the port
\* C10 as stated: a port is persisted (environment file, CI variable) only
\* after the operator confirmed it or typed it in.
C10_PersistedConfirmed ==
    persisted # {} => (confirmed_port # 0 /\ confirmed_port = chosen_port)

\* C10, amended: what is persisted is the chosen port; when the probe
\* suggested a port other than the preferred one the operator confirmed
\* that port or typed the chosen one in, and when the probe returned the
\* preferred port it is persisted without any confirmation.
C10_ConfirmedUnlessPreferred ==
    persisted # {} =>
        /\ "env" \in persisted => env_file.app_port = chosen_port
        /\ "ci" \in persisted => ci_port = chosen_port
        /\ IF free_port # preferred_port
           THEN confirmed_port = chosen_port
           ELSE chosen_port = preferred_port /\ confirmed_port = 0

\* The operator declined the suggestion and typed another port, which was
\* written to both places.
C10_Witness ==
    /\ persisted = {"env", "ci"}
    /\ free_port # preferred_port
    /\ chosen_port # free_port /\ confirmed_port = chosen_port

\* ------------------------------------------------------------ DNS records
\* How many dots a string has: one less than its number of labels.
DotCount(s) == Cardinality({ i \in 1..Len(s) : s[i] = "." })

HasPrefix(s, p) == \E k \in 0..Len(s) : SubSeq(s, 1, k) = p

SameKey(r, q) == r.zone = q.zone /\ r.name = q.name /\ r.type = q.type

\* C11: for a domain of more than two labels every call of
\* write_dns_records_json yields exactly two records: an A record to vps_ip
\* and a CNAME to the domain with a trailing dot, both in the zone made of the
\* last two labels (one dot, and name + "." + zone is the domain), the A
\* record named by the labels before the zone and the CNAME by "www." and
\* that name; a repeated call gives the same list and the same file.
C11_SubdomainRecords ==
    (dns_calls > 0 /\ DotCount(domain) >= 2) =>
        /\ Len(records) = 2
        /\ records[1].type = "A"
        /\ records[1].values = << vps_ip >>
        /\ records[2].type = "CNAME"
        /\ records[2].values = << domain \o << "." >> >>
        /\ records[2].zone = records[1].zone
        /\ DotCount(records[1].zone) = 1
        /\ records[1].name \o << "." >> \o records[1].zone = domain
        /\ records[2].name = << "w", "w", "w", "." >> \o records[1].name
        /\ records_json.exists => records_json.records = records

C11_Witness ==
    /\ entry = "write_dns_records_json" /\ dns_calls = MaxRuns
    /\ DotCount(domain) >= 2 /\ records_json.exists
    /\ records[1].name # << >>

\* C12: for a domain of at most two labels the zone is the domain itself,
\* the first record is an A record with the empty name to vps_ip, the second
\* a CNAME "www" to the domain with a trailing dot, and a third record, an A
\* record named by the service name to vps_ip, is there exactly when the
\* domain does not start with the service name followed by a dot.
C12_ApexRecords ==
    (dns_calls > 0 /\ DotCount(domain) <= 1) =>
        /\ Len(records) \in {2, 3}
        /\ records[1] = [zone |-> domain, name |-> << >>, type |-> "A",
                         values |-> << vps_ip >>]
        /\ records[2] = [zone |-> domain, name |-> << "w", "w", "w" >>,
                         type |-> "CNAME",
                         values |-> << domain \o << "." >> >>]
        /\ (Len(records) = 3) <=> ~HasPrefix(domain, svc_name \o << "." >>)
        /\ Len(records) = 3 =>
               records[3] = [zone |-> domain, name |-> svc_name, type |-> "A",
                             values |-> << vps_ip >>]

C12_Witness ==
    /\ dns_calls > 0 /\ DotCount(domain) = 1
    /\ Len(records) = 2 /\ svc_name # << >>

\* C13: whatever the domain, the address and the service name (the empty
\* name and "www" included), no two records of the list agree on zone, name
\* and type and differ in their values.
C13_NoConflictingRecords ==
    \A i, j \in 1..Len(records) :
        SameKey(records[i], records[j]) =>
            records[i].values = records[j].values

C13_Witness ==
    /\ dns_calls > 0
    /\ \E i, j \in 1..Len(records) : i < j /\ SameKey(records[i], records[j])

\* ------------------------------------------------ template materialization
\* The copy loop has run and the placeholder loop has not yet.
CopyDone == pc = "Substitute"

\* What the copy loop leaves of the entries in the set E of template entries.
CopiedIffAbsent(E) ==
    /\ \A t \in E : t \in copied <=> ~DestExists(before, t)
    /\ \A f \in Files : Top(f) \in copied => local[f] = TemplateFile(f)
    /\ \A f \in Files : DestExists(before, Top(f)) => local[f] = before[f]

\* C14 as stated: after the copy loop every top-level entry of the template
\* has been copied exactly when the destination had no entry of that name,
\* and every file of an entry the destination had is as it was.
C14_CopiedIffAbsent == CopyDone => CopiedIffAbsent(tmpl_tops)

\* C14, amended: the same for every top-level entry of the template but one
\* that is named like the downloaded archive, template.tar.gz, which the
\* loop never copies.
C14_CopiedIffAbsentButArchive ==
    CopyDone => /\ CopiedIffAbsent(tmpl_tops \ {ARCHIVE})
                /\ ARCHIVE \notin copied

C14_Witness ==
    /\ CopyDone
    /\ ".github" \in copied
    /\ PACKAGE_JSON \in tmpl_tops /\ before[PACKAGE_JSON] = UserFile
    /\ local[PACKAGE_JSON] = UserFile

\* C15: at every point of setup_local_files, a file that was in the
\* destination before the run has the content it had then.
C15_PreexistingUnchanged ==
    \A f \in Files : before[f].exists => local[f] = before[f]

\* C16: no file that cannot be read raises out of the placeholder
\* substitution, package.json and the DNS workflow files included.
C16_FailuresSwallowed == \A f \in Files : raised # f

\* What the substitution is meant to make of a text: the placeholder domain
\* becomes the domain, the placeholder names become the service name.
Intended(text) ==
    replace(replace(replace(text, PLACEHOLDER_DOMAIN, domain),
                    MYAPP, svc_name), APP_TEMPLATE, svc_name)

\* C17: with a domain supplied, the placeholder loop turns every readable
\* file with a matching extension into the text in which every
\* "myapp.example.com" is the domain and every placeholder name is the
\* service name.
C17_PlaceholdersReplaced ==
    [][(pc = "Substitute" /\ domain # << >>) =>
          \A f \in Files :
              (Rewritten(f) /\ local[f].readable) =>
                  local'[f].text = Intended(local[f].text)]_vars

\* ------------------------------------------------- waiting for the merge
\* C18: wait_for_pr_merge returns True only when the pull request is merged
\* and False only when it is closed without merging or the operator has
\* interrupted the wait.
C18_ResultMeansState ==
    /\ wait_result = "true" => pr_state = "MERGED"
    /\ wait_result = "false" => (pr_state = "CLOSED" \/ interrupted)

\* C19: when the loop goes on to another round, it has slept 5 seconds after
\* a query that answered with a non-terminal state and 10 seconds after a
\* query that failed.
C19_PollDelays ==
    (pc = "Poll" /\ polls > 0) =>
        slept = (IF last_poll = "error" THEN 10 ELSE 5)

\* ------------------------------------------------- CI secrets and variables
Range(q) == { q[i] : i \in 1..Len(q) }

\* The names a run has to attempt: five always, two more with a domain.
CiRequired ==
    {"VPS_HOST", "VPS_USER", "VPS_PASSWORD", "APP_PORT", "VPS_MANAGER_REPO"}
    \cup (IF domain # << >> THEN {"APP_DOMAIN", "DNS_PROVIDER_TOKEN"} ELSE {})

\* C20: in create_service a secret or variable that could not be set is only
\* warned about: the run never exits 1 once the first of them has been
\* attempted, every warned name is one that was attempted, and by the time
\* the run is past them (and when it has ended with status 0) each of
\* VPS_HOST, VPS_USER, VPS_PASSWORD, APP_PORT, VPS_MANAGER_REPO and, with a
\* domain, APP_DOMAIN and DNS_PROVIDER_TOKEN has been attempted, once.
C20_BestEffortCi ==
    entry = "create_service" =>
        /\ ci_warned \subseteq Range(ci_attempted)
        /\ Range(ci_attempted) \subseteq CiRequired
        /\ Cardinality(Range(ci_attempted)) = Len(ci_attempted)
        /\ ci_attempted # << >> => exit_code # 1
        /\ (pc \in {"WriteDns", "Finish"} \/ exit_code = 0) =>
               Range(ci_attempted) = CiRequired

C20_Witness ==
    /\ entry = "create_service" /\ exit_code = 0
    /\ ci_warned = {"VPS_HOST"}
    /\ Len(ci_attempted) = 7

\* ------------------------------------------------ validation and preflight
\* The remote host or the template repository is missing, or a domain comes
\* without a provider or without a token.
MissingArgs ==
    \/ ~has_host
    \/ ~has_repo
    \/ (domain # << >> /\ (provider = << >> \/ ~has_token))

\* Nothing has been cloned, checked, run on the host, written locally or set
\* in the repository.
NothingDone ==
    /\ ~cloned /\ preflight = "pending"
    /\ log = << >>
    /\ local = before /\ copied = {} /\ persisted = {}
    /\ records_json = NoRecords
    /\ ci_attempted = << >>

\* C21: a run of create_service with a missing host, a missing template
\* repository, or a domain without provider or token never gets past the
\* validation: it ends with status 1 and nothing has been cloned, run on the
\* host, written locally or set in the repository.
C21_RejectedBeforeAnyEffect ==
    (entry = "create_service" /\ MissingArgs) =>
        /\ pc \in {"Validate", "exited"}
        /\ pc = "exited" => exit_code = 1
        /\ NothingDone

C21_Witness ==
    /\ entry = "create_service" /\ pc = "exited" /\ exit_code = 1
    /\ has_host /\ has_repo /\ domain # << >> /\ provider # << >>
    /\ ~has_token /\ NothingDone

\* The phase a position of create_service belongs to: 0 before the
\* preflight, 1 preflight, 2 provisioning, 3 port negotiation, 4 local
\* materialization, 5 repository wiring with secrets and variables, 6 DNS
\* record emission, 7 the final message, 8 after the process has ended.
PhaseOf(p) ==
    CASE p \in {"Validate", "Clone"} -> 0
      [] p \in {"CheckRequirements", "TestSsh"} -> 1
      [] p \in {"UserCreate", "PasswordSet", "GroupAssign", "DirCreate",
                "OwnerSet", "PermSet", "Return"} -> 2
      [] p \in {"Probe", "Scan", "Confirm", "AskPort"} -> 3
      [] p \in {"SetupLocalFiles", "Substitute", "PackageJson", "Workflows",
                "EnvWrite"} -> 4
      [] p \in {"SetupGithubRepo", "SetCi"} -> 5
      [] p = "WriteDns" -> 6
      [] p = "Finish" -> 7
      [] OTHER -> 8

C23_PortPersistedTwice ==
    (entry = "create_service" /\ exit_code = 0) =>
        /\ env_file.exists
        /\ env_file.app_port = chosen_port
        /\ ci_port = chosen_port

\* C24: manage-accounts create for a service whose user already exists only
\* warns: the step that finds the user, and every step after the warning,
\* leaves the user, its groups, the directories and everything else on the
\* host as they were, runs no command, and the process ends with status 0.
C24_ExistingUserUntouched ==
    [][(/\ entry = "create_service_account"
        /\ \/ pc = "AcctCreateUser" /\ user_exists
           \/ warned)
       => /\ hostvars' = hostvars
          /\ log' = log
          /\ ~faulted'
          /\ warned'
          /\ pc' = "exited" /\ exit_code' = 0]_vars

C24_Witness ==
    /\ entry = "create_service_account"
    /\ pc = "exited" /\ exit_code = 0
    /\ warned /\ ~returned
    /\ user_exists /\ ~in_docker
    /\ dirs["/apps/web"] = RootDir
    /\ ~dirs["/logs/web"].exists
    /\ log = << >>

\* userdel has run and succeeded
UserDeleted(l) ==
    \E i \in 1..Len(l) : l[i] = Cmd("userdel", service_user, "ok")

\* Nothing is left of the service directories under /apps, /persistent and
\* /logs.
AllPurged(d) ==
    \A i \in 1..Len(base_dirs) : \A p \in Under(base_dirs[i]) : d[p] = NoDir

\* C25: manage-accounts remove changes a service directory only when --purge
\* was given and userdel has succeeded, and a run with --purge whose userdel
\* succeeded ends with all the service directories under /apps, /persistent
\* and /logs removed.
C25_PurgeOnlyAndWhole ==
    [][entry = "remove_service_account"
       => /\ dirs' # dirs => (purge /\ UserDeleted(log))
          /\ (pc # "exited" /\ pc' = "exited" /\ purge /\ UserDeleted(log'))
             => AllPurged(dirs')]_vars

\* The frame half of C25 alone: without --purge, without the user or after a
\* failed userdel no directory changes.
C25_FrameOnly ==
    [][entry = "remove_service_account"
       => (dirs' # dirs => (purge /\ UserDeleted(log)))]_vars

====
